---------------------------- MODULE Spec2Model ----------------------------
(***************************************************************************)
(* A model of Markdown.Extra.js (pagedown-extra): the hash-block store,    *)
(* the three recognizers (tables, fenced code blocks, definition lists)    *)
(* and the doConversion / finishConversion hooks.                          *)
(*                                                                         *)
(* A text is a sequence of characters; a character is a one-element        *)
(* string, except the sentinels STX and ETX, NUL and the backtick BT, which *)
(* are named.  The regular expressions                                     *)
(* of the source are transcribed node by node and matched by a             *)
(* backtracking matcher that yields the candidate matches in the order in  *)
(* which JavaScript's matcher tries them.                                  *)
(***************************************************************************)
EXTENDS Integers, Sequences, FiniteSets, TLC

(***************************************************************************)
(* Characters                                                              *)
(***************************************************************************)
STX == "^B"
ETX == "^C"
NUL == "^@"
BT  == "backtick"
NL  == "\n"
SP  == " "
TAB == "\t"
WS  == {SP, TAB, NL}
DIGITS == {"0", "1", "2", "3", "4", "5", "6", "7", "8", "9"}

(***************************************************************************)
(* Sequence helpers                                                        *)
(***************************************************************************)
Sub(s, a, b) == IF a > b THEN << >> ELSE SubSeq(s, a, b)

\* A sequence written as a function [k \in 1..n |-> e], made a tuple so that
\* its elements are evaluated once.
Tuple(f) == f \o << >>

\* The concatenation of the sequences ss[lo], ..., ss[hi], by halves.
RECURSIVE ConcatRange(_, _, _)
ConcatRange(ss, lo, hi) ==
    IF lo > hi THEN << >>
    ELSE IF lo = hi THEN ss[lo]
    ELSE ConcatRange(ss, lo, (lo + hi) \div 2) \o ConcatRange(ss, ((lo + hi) \div 2) + 1, hi)

Concat(ss) ==
    CASE Len(ss) = 0 -> << >>
      [] Len(ss) = 1 -> ss[1]
      [] OTHER -> ConcatRange(Tuple(ss), 1, Len(ss))

Repeat(c, n) == IF n <= 0 THEN << >> ELSE Tuple([k \in 1..n |-> c])

(***************************************************************************)
(* Regular expressions.  A node is a record with a tag t:                  *)
(*   set   one character in (neg = FALSE) or not in (neg = TRUE) cs        *)
(*   lit   the characters of a literal, each given as the set it may be    *)
(*   seq   the nodes rs one after the other                                *)
(*   alt   the first of rs that lets the rest match                        *)
(*   rep   r repeated min..max times (max = -1: unbounded), greedy or lazy *)
(*   run   a rep of a set                                                  *)
(*   open, close   the two ends of capture group k                         *)
(*   look  (?=r) or, with neg, (?!r)                                       *)
(*   bol   ^     eol   $   (m: the multiline flag)                         *)
(* A sequence inside a sequence is the same expression as the one sequence *)
(* of all their nodes, and is kept in that form.                           *)
(***************************************************************************)
In(cs)    == [t |-> "set", neg |-> FALSE, cs |-> cs]
NotIn(cs) == [t |-> "set", neg |-> TRUE, cs |-> cs]
Ch(c)     == In({c})
Dot       == NotIn({NL})
AnyCh     == NotIn({})
SpaceCh   == In(WS)
NonSpace  == NotIn(WS)
Elems(r)  == IF r.t = "seq" THEN r.rs ELSE << r >>
Cat(rs)   == [t |-> "seq", rs |-> Concat([k \in 1..Len(rs) |-> Elems(rs[k])])]
Alt(rs)   == [t |-> "alt", rs |-> rs]
RepTag(r)            == IF r.t = "set" THEN "run" ELSE "rep"
Rep(r, min, max)     == [t |-> RepTag(r), r |-> r, min |-> min, max |-> max, lazy |-> FALSE]
RepLazy(r, min, max) == [t |-> RepTag(r), r |-> r, min |-> min, max |-> max, lazy |-> TRUE]
Star(r)   == Rep(r, 0, -1)
Plus(r)   == Rep(r, 1, -1)
Opt(r)    == Rep(r, 0, 1)
Cap(k, r) == Cat(<< [t |-> "open", k |-> k], r, [t |-> "close", k |-> k] >>)
Ahead(r)    == [t |-> "look", neg |-> FALSE, r |-> r]
NotAhead(r) == [t |-> "look", neg |-> TRUE, r |-> r]
Bol(m)    == [t |-> "bol", m |-> m]
Eol(m)    == [t |-> "eol", m |-> m]
Lit(str)  == [t |-> "lit", sets |-> Tuple([k \in 1..Len(str) |-> {str[k]}])]

\* The captures of a match: for each group <<start, end>>, <<0, 0>> for a group
\* that took no part.
NoCaps == [k \in 1..6 |-> <<0, 0>>]

\* A candidate that repeats an earlier one (same end, same captures) lets the
\* rest of the expression match exactly when the earlier one does: it is dropped.
Distinct(found) ==
    LET kept == {j \in 1..Len(found) : \A k \in 1..(j - 1) : found[k] # found[j]}
        Nth(p) == CHOOSE j \in kept : Cardinality({k \in kept : k <= j}) = p
    IN IF Cardinality(kept) = Len(found) THEN found
       ELSE Tuple([p \in 1..Cardinality(kept) |-> found[Nth(p)]])

\* The length of the run of characters of the class cls that starts at i.
RunLength(cls, s, i) ==
    LET stops == {k \in i..Len(s) : (s[k] \in cls.cs) = cls.neg}
    IN IF stops = {} THEN Len(s) + 1 - i
       ELSE (CHOOSE k \in stops : \A j \in stops : k <= j) - i

\* A repeated character class: every length from min up to the run (or max),
\* the longest first when greedy, the shortest first when lazy.
MRun(r, s, i, c) ==
    LET Lengths(most) ==
            IF most < r.min THEN << >>
            ELSE Tuple([j \in 1..(most - r.min + 1) |->
                    [e |-> i + (IF r.lazy THEN r.min + j - 1 ELSE most - j + 1),
                     c |-> c]])
        AtMost(run) == Lengths(IF r.max # -1 /\ r.max < run THEN r.max ELSE run)
    IN AtMost(RunLength(r.r, s, i))

\* The candidate matches of node r in s from position i (the index of the next
\* character), best first: a sequence of [e |-> end position, c |-> captures].
RECURSIVE M(_, _, _, _)
RECURSIVE MSeq(_, _, _, _, _)
RECURSIVE MRep(_, _, _, _, _)

\* found: the candidates before rs[lo]; they are continued by rs[lo] .. rs[hi],
\* the first half of the nodes and then the second.
MSeq(rs, lo, hi, s, found) ==
    CASE found = << >> -> found
      [] lo = hi /\ Len(found) = 1 -> M(rs[lo], s, found[1].e, found[1].c)
      [] lo = hi -> Concat([j \in 1..Len(found) |-> M(rs[lo], s, found[j].e, found[j].c)])
      [] OTHER -> MSeq(rs, ((lo + hi) \div 2) + 1, hi, s,
                       MSeq(rs, lo, (lo + hi) \div 2, s, found))

\* The candidates of every alternative, those of the first alternative first.
MAlt(rs, s, i, c) == Concat([k \in 1..Len(rs) |-> M(rs[k], s, i, c)])

\* n iterations of r.r are done.  An iteration that matches the empty text is
\* not taken.
MRep(r, n, s, i, c) ==
    LET stop == IF n >= r.min THEN << [e |-> i, c |-> c] >> ELSE << >>
        Order(more) == IF r.lazy THEN stop \o more ELSE more \o stop
        After(iter) ==
            CASE iter = << >> -> stop
              [] Len(iter) = 1 -> Order(MRep(r, n + 1, s, iter[1].e, iter[1].c))
              [] OTHER -> Order(Distinct(Concat([j \in 1..Len(iter) |->
                                    MRep(r, n + 1, s, iter[j].e, iter[j].c)])))
    IN After(IF r.max # -1 /\ n >= r.max THEN << >>
             ELSE SelectSeq(M(r.r, s, i, c), LAMBDA x : x.e > i))

M(r, s, i, c) ==
    CASE r.t = "set" ->
           IF i <= Len(s) /\ ((s[i] \in r.cs) # r.neg)
           THEN << [e |-> i + 1, c |-> c] >> ELSE << >>
      [] r.t = "lit" ->
           IF i + Len(r.sets) - 1 <= Len(s)
              /\ \A k \in 1..Len(r.sets) : s[i + k - 1] \in r.sets[k]
           THEN << [e |-> i + Len(r.sets), c |-> c] >> ELSE << >>
      [] r.t = "seq" -> MSeq(r.rs, 1, Len(r.rs), s, << [e |-> i, c |-> c] >>)
      [] r.t = "alt" -> MAlt(r.rs, s, i, c)
      [] r.t = "run" -> MRun(r, s, i, c)
      [] r.t = "rep" -> MRep(r, 0, s, i, c)
      [] r.t = "open"  -> << [e |-> i, c |-> [c EXCEPT ![r.k] = <<i, i>>]] >>
      [] r.t = "close" -> << [e |-> i, c |-> [c EXCEPT ![r.k] = <<c[r.k][1], i>>]] >>
      [] r.t = "look" ->
           LET Looked(inner) ==
                   IF r.neg
                   THEN (IF inner = << >> THEN << [e |-> i, c |-> c] >> ELSE << >>)
                   ELSE (IF inner = << >> THEN << >>
                         ELSE << [e |-> i, c |-> inner[1].c] >>)
           IN Looked(M(r.r, s, i, c))
      [] r.t = "bol" ->
           IF i = 1 \/ (r.m /\ i > 1 /\ s[i - 1] = NL)
           THEN << [e |-> i, c |-> c] >> ELSE << >>
      [] r.t = "eol" ->
           IF i = Len(s) + 1 \/ (r.m /\ i <= Len(s) /\ s[i] = NL)
           THEN << [e |-> i, c |-> c] >> ELSE << >>

\* The text of capture group k of a match; << >> for a group that did not
\* take part (Took tells the two apart).
Group(s, m, k) == Sub(s, m.c[k][1], m.c[k][2] - 1)
Took(m, k)     == m.c[k][1] # 0

\* The candidates of re at every position of s, the end of s included.
Candidates(re, s) == Tuple([k \in 1..(Len(s) + 1) |-> M(re, s, k, NoCaps)])

\* RegExp.prototype.exec from position i on, again and again: the leftmost
\* position with a candidate and its first candidate give a match
\* [b |-> start, e |-> end, c |-> captures]; after an empty match the search
\* goes on one character further.
RECURSIVE Walk(_, _)
Walk(cands, i) ==
    LET starts == {k \in i..Len(cands) : cands[k] # << >>}
        From(b) == << [b |-> b, e |-> cands[b][1].e, c |-> cands[b][1].c] >>
                   \o Walk(cands, IF cands[b][1].e = b THEN b + 1 ELSE cands[b][1].e)
    IN IF starts = {} THEN << >>
       ELSE From(CHOOSE k \in starts : \A j \in starts : k <= j)

\* The matches a global (g) regular expression finds in s, left to right, as
\* String.prototype.replace walks them.
Matches(re, s) == Walk(Candidates(re, s), 1)

\* RegExp.prototype.test
Test(re, s) == \E k \in 1..(Len(s) + 1) : M(re, s, k, NoCaps) # << >>

\* The first match only (a regular expression without the g flag).
FirstMatch(re, s) ==
    LET First(ms) == IF ms = << >> THEN ms ELSE << ms[1] >>
    IN First(Matches(re, s))

\* String.prototype.replace(re, fn) for the matches ms of re in s: every match
\* is replaced by F(match, k), k the number of the match (the callback's result
\* is inserted as it stands: a function replacement is not scanned for $
\* patterns).
ReplaceAt(ms, s, F(_, _)) ==
    IF ms = << >> THEN s
    ELSE Concat([k \in 1..Len(ms) |->
                   Sub(s, IF k = 1 THEN 1 ELSE ms[k - 1].e, ms[k].b - 1) \o F(ms[k], k)])
         \o Sub(s, ms[Len(ms)].e, Len(s))

\* String.prototype.replace(re, fn) with a global re.
ReplaceAll(re, s, F(_, _)) == ReplaceAt(Matches(re, s), s, F)

\* String.prototype.replace(re, fn) with a re that has no g flag.
ReplaceFirst(re, s, F(_, _)) == ReplaceAt(FirstMatch(re, s), s, F)

Erase(m, k) == << >>

\* String.prototype.split(re), for a separator that matches no empty text: the
\* pieces between the matches of re.
Split(re, s) ==
    LET Pieces(ms) ==
            Tuple([k \in 1..(Len(ms) + 1) |->
                     Sub(s, IF k = 1 THEN 1 ELSE ms[k - 1].e,
                            IF k = Len(ms) + 1 THEN Len(s) ELSE ms[k].b - 1)])
    IN IF s = << >> THEN << s >> ELSE Pieces(Matches(re, s))

RECURSIVE Join(_, _)
Join(parts, sep) ==
    IF parts = << >> THEN << >>
    ELSE IF Len(parts) = 1 THEN parts[1]
    ELSE parts[1] \o sep \o Join(Tail(parts), sep)

\* Number to decimal digits (string concatenation of a number) and back
\* (parseInt(m1, 10) of a run of digits).
DigitOf == <<"0", "1", "2", "3", "4", "5", "6", "7", "8", "9">>

RECURSIVE NumberToString(_)
NumberToString(n) ==
    IF n < 10 THEN << DigitOf[n + 1] >>
    ELSE NumberToString(n \div 10) \o << DigitOf[(n % 10) + 1] >>

RECURSIVE parseInt(_)
parseInt(ds) ==
    IF ds = << >> THEN 0
    ELSE parseInt(Sub(ds, 1, Len(ds) - 1)) * 10
         + ((CHOOSE k \in 1..10 : DigitOf[k] = ds[Len(ds)]) - 1)

(***************************************************************************)
(* Utility functions                                                       *)
(***************************************************************************)
LOWERS == <<"a", "b", "c", "d", "e", "f", "g", "h", "i", "j", "k", "l", "m",
            "n", "o", "p", "q", "r", "s", "t", "u", "v", "w", "x", "y", "z">>
UPPERS == <<"A", "B", "C", "D", "E", "F", "G", "H", "I", "J", "K", "L", "M",
            "N", "O", "P", "Q", "R", "S", "T", "U", "V", "W", "X", "Y", "Z">>
BothCases(c) ==
    IF \E k \in 1..26 : LOWERS[k] = c
    THEN {c, UPPERS[CHOOSE k \in 1..26 : LOWERS[k] = c]} ELSE {c}
\* A literal under the i flag.
LitI(str) == [t |-> "lit", sets |-> Tuple([k \in 1..Len(str) |-> BothCases(str[k])])]

inlineTagNames == <<
    <<"a">>, <<"a", "b", "b", "r">>, <<"a", "c", "r", "o", "n", "y", "m">>,
    <<"a", "p", "p", "l", "e", "t">>, <<"a", "r", "e", "a">>, <<"b">>,
    <<"b", "a", "s", "e", "f", "o", "n", "t">>, <<"b", "d", "o">>,
    <<"b", "i", "g">>, <<"b", "u", "t", "t", "o", "n">>,
    <<"c", "i", "t", "e">>, <<"c", "o", "d", "e">>, <<"d", "e", "l">>,
    <<"d", "f", "n">>, <<"e", "m">>,
    <<"f", "i", "g", "c", "a", "p", "t", "i", "o", "n">>,
    <<"f", "o", "n", "t">>, <<"i">>, <<"i", "f", "r", "a", "m", "e">>,
    <<"i", "m", "g">>, <<"i", "n", "p", "u", "t">>, <<"i", "n", "s">>,
    <<"k", "b", "d">>, <<"l", "a", "b", "e", "l">>, <<"m", "a", "p">>,
    <<"m", "a", "r", "k">>, <<"m", "e", "t", "e", "r">>,
    <<"o", "b", "j", "e", "c", "t">>, <<"p", "a", "r", "a", "m">>,
    <<"p", "r", "o", "g", "r", "e", "s", "s">>, <<"q">>,
    <<"r", "u", "b", "y">>, <<"r", "p">>, <<"r", "t">>, <<"s">>,
    <<"s", "a", "m", "p">>, <<"s", "c", "r", "i", "p", "t">>,
    <<"s", "e", "l", "e", "c", "t">>, <<"s", "m", "a", "l", "l">>,
    <<"s", "p", "a", "n">>, <<"s", "t", "r", "i", "k", "e">>,
    <<"s", "t", "r", "o", "n", "g">>, <<"s", "u", "b">>, <<"s", "u", "p">>,
    <<"t", "e", "x", "t", "a", "r", "e", "a">>, <<"t", "i", "m", "e">>,
    <<"t", "t">>, <<"u">>, <<"v", "a", "r">>, <<"w", "b", "r">> >>

\* ^(<\/?(a|abbr|...|wbr)[^>]*>|<(br)\s?\/?>)$   with the i flag
inlineTags ==
    Cat(<< Bol(FALSE),
           Alt(<< Cat(<< Ch("<"), Opt(Ch("/")),
                         Alt(Tuple([k \in 1..Len(inlineTagNames) |->
                                      LitI(inlineTagNames[k])])),
                         Star(NotIn({">"})), Ch(">") >>),
                  Cat(<< Ch("<"), LitI(<<"b", "r">>), Opt(SpaceCh), Opt(Ch("/")),
                         Ch(">") >>) >>),
           Eol(FALSE) >>)

\* /^\s+|\s+$/g
outerSpace == Alt(<< Cat(<< Bol(FALSE), Plus(SpaceCh) >>),
                     Cat(<< Plus(SpaceCh), Eol(FALSE) >>) >>)
\* /\s+$/g
trailingSpace == Cat(<< Plus(SpaceCh), Eol(FALSE) >>)
\* /^(\t|[ ]{1,4})/mg
indent == Cat(<< Bol(TRUE), Alt(<< Ch(TAB), Rep(Ch(SP), 1, 4) >>) >>)

\* str.replace(/^\s+|\s+$/g, '')
trim(str) == ReplaceAll(outerSpace, str, Erase)

\* str.replace(/\s+$/g, '')
rtrim(str) == ReplaceAll(trailingSpace, str, Erase)

\* text.replace(/^(\t|[ ]{1,4})/mg, '')
outdent(text) == ReplaceAll(indent, text, Erase)

\* An array of names contains a name.
contains(arr, x) == \E k \in 1..Len(arr) : arr[k] = x

\* /<[^>]*>?/gi
anyTag == Cat(<< Ch("<"), Star(NotIn({">"})), Opt(Ch(">")) >>)

\* html.replace(/<[^>]*>?/gi, tag => tag.match(whitelist) ? tag : '')
sanitizeHtml(html, whitelist) ==
    LET Keep(m, k) == IF Test(whitelist, Sub(html, m.b, m.e - 1))
                      THEN Sub(html, m.b, m.e - 1) ELSE << >>
    IN ReplaceAll(anyTag, html, Keep)

addAnchors(text) ==
    LET t1 == IF text = << >> \/ text[1] # STX THEN <<STX>> \o text ELSE text
    IN IF t1[Len(t1)] # ETX THEN t1 \o <<ETX>> ELSE t1

removeAnchors(text) ==
    LET t1 == IF text # << >> /\ text[1] = STX THEN Tail(text) ELSE text
    IN IF t1 # << >> /\ t1[Len(t1)] = ETX THEN Sub(t1, 1, Len(t1) - 1) ELSE t1

\* text.replace(/\\\|/g, '&#124;').replace(/\\:/g, '&#58;')
escapedPipe  == Lit(<<"\\", "|">>)
escapedColon == Lit(<<"\\", ":">>)

processEscapes(text) ==
    LET Pipe(m, k)  == <<"&", "#", "1", "2", "4", ";">>
        Colon(m, k) == <<"&", "#", "5", "8", ";">>
    IN ReplaceAll(escapedColon, ReplaceAll(escapedPipe, text, Pipe), Colon)


(***************************************************************************)
(* The host converter.  It is not part of this repository: it is modelled  *)
(* at its interface for a text with no baseline markdown in it, as         *)
(* Pagedown forms paragraphs: leading and trailing newlines go, the text   *)
(* is split at blank-line gaps, a piece that is a <p>...</p> block is kept *)
(* and every other non-blank piece is wrapped in <p>...</p>.               *)
(***************************************************************************)
BlankGap == Rep(Ch(NL), 2, -1)

IsHtmlBlock(graf) ==
    /\ Len(graf) >= 7
    /\ Sub(graf, 1, 3) = <<"<", "p", ">">>
    /\ Sub(graf, Len(graf) - 3, Len(graf)) = <<"<", "/", "p", ">">>

leadingNewlines  == Cat(<< Bol(FALSE), Plus(Ch(NL)) >>)
trailingNewlines == Cat(<< Plus(Ch(NL)), Eol(FALSE) >>)
leadingBlanks    == Cat(<< Bol(FALSE), Star(In({SP, TAB})) >>)

formParagraph(graf) ==
    IF IsHtmlBlock(graf) THEN graf
    ELSE <<"<", "p", ">">> \o ReplaceFirst(leadingBlanks, graf, Erase) \o <<"<", "/", "p", ">">>

makeHtml(text) ==
    LET Paragraphs(grafs) ==
            Join(Tuple([k \in 1..Len(grafs) |-> formParagraph(grafs[k])]), <<NL, NL>>)
    IN Paragraphs(SelectSeq(
                    Split(BlankGap,
                          ReplaceFirst(trailingNewlines,
                                       ReplaceFirst(leadingNewlines, text, Erase),
                                       Erase)),
                    LAMBDA g : Test(NonSpace, g)))

\* Convert markdown within an element, retaining only span-level tags.
convertSpans(text) == sanitizeHtml(makeHtml(text), inlineTags)

(***************************************************************************)
(* The hash-block store                                                    *)
(***************************************************************************)
\* A store whose placeholders carry the length of the store after the push:
\* keys that count from one.
hashExtraBlockFromOne(hashBlocks, block) ==
    [hashBlocks |-> Append(hashBlocks, block),
     text |-> <<"<", "p", ">", "~", "X">> \o NumberToString(Len(hashBlocks) + 1) \o <<"X",
         "<", "/", "p", ">">>]

\* '<p>~X' + (this.hashBlocks.push(block) - 1) + 'X</p>': the store after the
\* push and the placeholder returned.
hashExtraBlock(hashBlocks, block) ==
    LET pushed == Append(hashBlocks, block)
    IN [hashBlocks |-> pushed,
        text |-> <<"<", "p", ">", "~", "X">> \o NumberToString(Len(pushed) - 1) \o <<"X", "<",
            "/", "p", ">">>]

\* /<p>~X(\d+)X<\/p>/g
placeholderRe ==
    Cat(<< Lit(<<"<", "p", ">", "~", "X">>), Cap(1, Plus(In(DIGITS))), Lit(<<"X", "<", "/",
        "p", ">">>) >>)

\* An array read outside the array is undefined, and replace() inserts the
\* callback's undefined as the text "undefined".
unHashExtraBlocks(hashBlocks, text) ==
    LET At(key) == IF key < Len(hashBlocks) THEN hashBlocks[key + 1] ELSE <<"u", "n", "d",
        "e", "f", "i", "n", "e", "d">>
        Block(m, k) == At(parseInt(Group(text, m, 1)))
    IN ReplaceAll(placeholderRe, text, Block)

\* hashExtraBlock called once per match, in the order of the matches.
RECURSIVE HashEach(_, _)
HashEach(hashBlocks, htmls) ==
    IF htmls = << >> THEN [hashBlocks |-> hashBlocks, out |-> << >>]
    ELSE LET h    == hashExtraBlock(hashBlocks, Head(htmls))
             rest == HashEach(h.hashBlocks, Tail(htmls))
         IN [hashBlocks |-> rest.hashBlocks, out |-> << h.text >> \o rest.out]

\* text.replace(re, match => Around(match, self.hashExtraBlock(Render(match)))).
ReplaceHashed(re, text, hashBlocks, Render(_, _), Around(_, _, _)) ==
    LET Hashed(ms, hs) ==
            [hashBlocks |-> hs.hashBlocks,
             text |-> ReplaceAt(ms, text, LAMBDA m, k : Around(text, m, hs.out[k]))]
        Found(ms) ==
            IF ms = << >> THEN [hashBlocks |-> hashBlocks, text |-> text]
            ELSE Hashed(ms, HashEach(hashBlocks,
                                     Tuple([k \in 1..Len(ms) |-> Render(text, ms[k])])))
    IN Found(Matches(re, text))

Bare(text, m, placeholder) == placeholder


(***************************************************************************)
(* Tables                                                                  *)
(***************************************************************************)
Spaces03 == Rep(Ch(SP), 0, 3)

\* ^[ ]{0,3}[|](.+)\n[ ]{0,3}[|]([ ]*[-:]+[-| :]*)\n((?:[ ]*[|].*\n?)*)(?:\n|$)   gm
leadingPipe ==
    Cat(<< Bol(TRUE), Spaces03, Ch("|"),
           Cap(1, Plus(Dot)), Ch(NL),
           Spaces03,
           Ch("|"), Cap(2, Cat(<< Star(Ch(SP)), Plus(In({"-", ":"})),
                                  Star(In({"-", "|", SP, ":"})) >>)), Ch(NL),
           Cap(3, Star(Cat(<< Star(Ch(SP)), Ch("|"), Star(Dot), Opt(Ch(NL)) >>))),
           Alt(<< Ch(NL), Eol(TRUE) >>) >>)

\* ^[ ]{0,3}(\S.*[|].*)\n[ ]{0,3}([-:]+[ ]*[|][-| :]*)\n((?:.*[|].*\n?)*)(?:\n|$)   gm
noLeadingPipe ==
    Cat(<< Bol(TRUE), Spaces03,
           Cap(1, Cat(<< NonSpace, Star(Dot), Ch("|"), Star(Dot) >>)), Ch(NL),
           Spaces03,
           Cap(2, Cat(<< Plus(In({"-", ":"})), Star(Ch(SP)), Ch("|"),
                         Star(In({"-", "|", SP, ":"})) >>)), Ch(NL),
           Cap(3, Star(Cat(<< Star(Dot), Ch("|"), Star(Dot), Opt(Ch(NL)) >>))),
           Alt(<< Ch(NL), Eol(TRUE) >>) >>)

\* /^ *[|]/m  and  /[|] *$/m
leadingPipes  == Cat(<< Bol(TRUE), Star(Ch(SP)), Ch("|") >>)
trailingPipes == Cat(<< Ch("|"), Star(Ch(SP)), Eol(TRUE) >>)

\* / *[|] */
cellSeparator == Cat(<< Star(Ch(SP)), Ch("|"), Star(Ch(SP)) >>)

\* The style of one column, from its part of the separator line.
\* /^ *-+: *$/m   /^ *:-+: *$/m   /^ *:-+ *$/m
alignRight  == Cat(<< Bol(TRUE), Star(Ch(SP)), Plus(Ch("-")), Ch(":"),
                      Star(Ch(SP)), Eol(TRUE) >>)
alignCenter == Cat(<< Bol(TRUE), Star(Ch(SP)), Ch(":"), Plus(Ch("-")), Ch(":"),
                      Star(Ch(SP)), Eol(TRUE) >>)
alignLeft   == Cat(<< Bol(TRUE), Star(Ch(SP)), Ch(":"), Plus(Ch("-")),
                      Star(Ch(SP)), Eol(TRUE) >>)

alignOf(spec) ==
    CASE Test(alignRight, spec)  -> <<" ", "s", "t", "y", "l", "e", "=", "\"", "t", "e", "x",
        "t", "-", "a", "l", "i", "g", "n", ":", "r", "i", "g", "h", "t", ";", "\"">>
      [] Test(alignCenter, spec) -> <<" ", "s", "t", "y", "l", "e", "=", "\"", "t", "e", "x",
          "t", "-", "a", "l", "i", "g", "n", ":", "c", "e", "n", "t", "e", "r", ";", "\"">>
      [] Test(alignLeft, spec)   -> <<" ", "s", "t", "y", "l", "e", "=", "\"", "t", "e", "x",
          "t", "-", "a", "l", "i", "g", "n", ":", "l", "e", "f", "t", ";", "\"">>
      [] OTHER -> << >>

\* The styles of the columns, from the parts of the separator line.
alignments(alignspecs) == Tuple([i \in 1..Len(alignspecs) |-> alignOf(alignspecs[i])])

\* header, separator and body of a match with their outer pipes removed.
tableHeader(header) ==
    ReplaceFirst(trailingPipes, ReplaceFirst(leadingPipes, header, Erase), Erase)

tableBody(body) ==
    ReplaceAll(trailingPipes, ReplaceAll(leadingPipes, body, Erase), Erase)

\* The cells of one body row, made as many as there are columns.
rowCellsOf(row, colCount) ==
    LET Padded(cells) == cells \o Repeat(<< >>, colCount - Len(cells))
    IN Padded(Split(cellSeparator, row))

\* A row rendered with every cell it has.
cellsOfRow(rowCells, colCount) == Len(rowCells)

\* The number of cells rendered for a row: for (j = 0; j < colCount; j++)
cellsRendered(rowCells, colCount) == colCount

\* The lines of the body that give a row: those that do not match /^\s*$/.
blankRow == Cat(<< Bol(FALSE), Star(SpaceCh), Eol(FALSE) >>)

tableRows(body) == SelectSeq(Split(Ch(NL), body), LAMBDA row : ~Test(blankRow, row))

doTable(header0, separator0, body0, tableClass) ==
    LET cls == IF tableClass # << >>
               THEN <<" ", "c", "l", "a", "s", "s", "=", "\"">> \o tableClass \o <<"\"">> ELSE << >>
        Html(headers, align, rows) ==
            LET style(i) == IF i <= Len(align) THEN align[i] ELSE << >>
                cell(tag, i, content) ==
                    <<" ", " ", "<">> \o tag \o style(i) \o <<">">> \o convertSpans(trim(content))
                    \o <<"<", "/">> \o tag \o <<">", "\n">>
                tr(tag, cells, colCount) ==
                    <<"<", "t", "r", ">", "\n">>
                    \o Concat([j \in 1..colCount |-> cell(tag, j, cells[j])])
                    \o <<"<", "/", "t", "r", ">", "\n">>
                trs(tag, cellsOf, colCount) ==
                    Concat([i \in 1..Len(cellsOf) |->
                              tr(tag, cellsOf[i], cellsRendered(cellsOf[i], colCount))])
            IN <<"<", "t", "a", "b", "l", "e">> \o cls \o <<">", "\n">> \o <<"<", "t", "h",
                "e", "a", "d", ">", "\n">>
               \o tr(<<"t", "h">>, headers, Len(headers))
               \o <<"<", "/", "t", "h", "e", "a", "d", ">", "\n">>
               \o trs(<<"t", "d">>, Tuple([i \in 1..Len(rows) |->
                                       rowCellsOf(rows[i], Len(headers))]), Len(headers))
               \o <<"<", "/", "t", "a", "b", "l", "e", ">", "\n">>
    IN Html(Split(cellSeparator, tableHeader(header0)),
            alignments(Split(cellSeparator, tableHeader(separator0))),
            tableRows(tableBody(body0)))

\* Find and convert Markdown Extra tables into html.
tables(text, hashBlocks, tableClass) ==
    LET Render(s, m) == doTable(Group(s, m, 1), Group(s, m, 2), Group(s, m, 3),
                                tableClass)
        Second(first) == ReplaceHashed(noLeadingPipe, first.text, first.hashBlocks,
                                       Render, Bare)
    IN Second(ReplaceHashed(leadingPipe, text, hashBlocks, Render, Bare))


(***************************************************************************)
(* Fenced code blocks                                                      *)
(***************************************************************************)
encodeCode(code) ==
    LET Amp(m, k) == <<"&", "a", "m", "p", ";">>
        Lt(m, k)  == <<"&", "l", "t", ";">>
        Gt(m, k)  == <<"&", "g", "t", ";">>
    IN ReplaceAll(Ch(">"), ReplaceAll(Ch("<"), ReplaceAll(Ch("&"), code, Amp), Lt), Gt)

\* /(?:^|\n)BBB(.*)\n([\s\S]*?)\nBBB/g   with BBB three backticks
fence ==
    Cat(<< Alt(<< Bol(FALSE), Ch(NL) >>), Lit(<<BT, BT, BT>>), Cap(1, Star(Dot)), Ch(NL),
           Cap(2, RepLazy(AnyCh, 0, -1)), Ch(NL), Lit(<<BT, BT, BT>>) >>)

codeHtml(language, codeblock, googleCodePrettify, highlightJs) ==
    LET preclass  == IF googleCodePrettify THEN <<" ", "c", "l", "a", "s", "s", "=", "\"",
        "p", "r", "e", "t", "t", "y", "p", "r", "i", "n", "t", "\"">> ELSE << >>
        codeclass == IF language = << >> THEN << >>
                     ELSE IF googleCodePrettify \/ highlightJs
                     THEN <<" ", "c", "l", "a", "s", "s", "=", "\"", "l", "a", "n", "g", "u",
                         "a", "g", "e", "-">> \o language \o <<"\"">>
                     ELSE <<" ", "c", "l", "a", "s", "s", "=", "\"">> \o language \o <<"\"">>
    IN <<"<", "p", "r", "e">> \o preclass \o <<">", "<", "c", "o", "d",
        "e">> \o codeclass \o <<">">>
       \o encodeCode(codeblock) \o <<"<", "/", "c", "o", "d", "e", ">", "<", "/", "p", "r",
           "e", ">">>

\* Find and convert gfm-inspired fenced code blocks into html.
fencedCodeBlocks(text, hashBlocks, googleCodePrettify, highlightJs) ==
    LET Render(s, m) == codeHtml(Group(s, m, 1), Group(s, m, 2),
                                 googleCodePrettify, highlightJs)
    IN ReplaceHashed(fence, text, hashBlocks, Render, Bare)

(***************************************************************************)
(* Definition lists                                                        *)
(***************************************************************************)
\* [ ]{0,3}:[ ]+   the colon starting a definition
colonMark == Cat(<< Spaces03, Ch(":"), Plus(Ch(SP)) >>)

\* The regular expression of definitionLists, flags gm.  Its first way to end a
\* list is written (?=\0x03) in the source: a NUL character followed by the
\* three characters x03.
wholeList ==
    Cat(<< Cap(1, Alt(<< Cat(<< Ch(STX), Opt(Ch(NL)) >>), Lit(<<NL, NL>>) >>)),
           Cap(2, Cat(<<
               Cap(3, Cat(<< Spaces03,
                             Cap(4, Plus(Cat(<< Star(In({SP, TAB})), NonSpace,
                                                Star(Dot), Ch(NL) >>))),
                             Opt(Ch(NL)),
                             colonMark >>)),
               Cap(5, RepLazy(AnyCh, 1, -1)),
               Cap(6, Alt(<<
                   Ahead(Lit(<<NUL, "x", "0", "3">>)),
                   Ahead(Cat(<<
                       Rep(Ch(NL), 2, -1),
                       Ahead(NonSpace),
                       NotAhead(Cat(<< Spaces03,
                                       RepLazy(Cat(<< NonSpace, Star(Dot), Ch(NL),
                                                      Ch(SP) >>), 1, -1),
                                       Opt(Ch(NL)),
                                       colonMark >>)),
                       NotAhead(colonMark) >>)) >>)) >>)) >>)

\* The regular expression dt of processDefListItems, flags mg.
dt ==
    Cat(<< Cap(1, Alt(<< Cat(<< Ch(STX), Opt(Ch(NL)) >>),
                         Cat(<< Ch(NL), Plus(Ch(NL)) >>) >>)),
           Cap(2, Cat(<< Spaces03,
                         NotAhead(Alt(<< Cat(<< Ch(":"), Ch(SP) >>), Ch(SP) >>)),
                         RepLazy(Cat(<< NonSpace, Star(Dot), Ch(NL) >>), 1, -1) >>)),
           Ahead(Cat(<< Opt(Ch(NL)), Spaces03, Ch(":"), Ch(SP) >>)) >>)

\* The regular expression dd of processDefListItems, flags mg.
dd ==
    Cat(<< Ch(NL), Opt(Cap(1, Plus(Ch(NL)))),
           Cap(2, Cat(<< Spaces03, Ch(":"), Plus(Ch(SP)) >>)),
           Cap(3, RepLazy(AnyCh, 1, -1)),
           Ahead(Cat(<< Star(Ch(NL)),
                        Alt(<< Cat(<< Ch(NL), Spaces03, Ch(":"), Ch(SP) >>),
                               Lit(<<"<", "d", "t", ">">>),
                               Ch(ETX) >>) >>)) >>)

\* The callback of the dt replacement: one <dt> for each line of the terms.
dtHtml(termsStr) ==
    LET Each(terms) ==
            Concat([i \in 1..Len(terms) |->
                      <<"\n", "<", "d", "t", ">">> \o convertSpans(trim(terms[i])) \o <<"<",
                          "/", "d", "t", ">">>])
    IN Each(Split(Ch(NL), trim(termsStr))) \o <<NL>>

\* A definition taken for loose by the blank line before it alone.
looseByLeadingLine(leading_line_given, def) == leading_line_given

\* if (leading_line || def.match(/\n{2,}/))
isLoose(leading_line_given, def) == leading_line_given \/ Test(BlankGap, def)

looseHtml(marker_space, def) ==
    <<NL>> \o makeHtml(outdent(Repeat(SP, Len(marker_space)) \o def) \o <<NL, NL>>)
    \o <<NL>>

tightHtml(def) == convertSpans(outdent(rtrim(def)))

\* The callback of the dd replacement.
ddHtml(leading_line_given, marker_space, def) ==
    <<"\n", "<", "d", "d", ">">>
    \o (IF isLoose(leading_line_given, def) THEN looseHtml(marker_space, def)
        ELSE tightHtml(def))
    \o <<"<", "/", "d", "d", ">", "\n">>

\* listStr.replace(/\n{2,}(?=\\x03)/, "\n"): in a regular expression literal
\* \\x03 is a backslash followed by the three characters x03.
trailingBlankLines == Cat(<< Rep(Ch(NL), 2, -1), Ahead(Lit(<<"\\", "x", "0", "3">>)) >>)

trimTrailingBlankLines(listStr) ==
    LET OneNewline(m, k) == <<NL>>
    IN ReplaceFirst(trailingBlankLines, listStr, OneNewline)

\* listStr with the sentinels added, as the dd replacement finds it.
defListTerms(listStr) ==
    LET Terms(anchored) ==
            ReplaceAll(dt, anchored, LAMBDA m, k : dtHtml(Group(anchored, m, 2)))
    IN Terms(trimTrailingBlankLines(addAnchors(listStr)))

\* Process the contents of a single definition list, splitting it into
\* individual term and definition list items.
processDefListItems(listStr) ==
    LET Defs(withTerms) ==
            ReplaceAll(dd, withTerms,
                       LAMBDA m, k : ddHtml(Took(m, 1), Group(withTerms, m, 2),
                                            Group(withTerms, m, 3)))
    IN removeAnchors(Defs(defListTerms(listStr)))

\* Find and convert markdown extra definition lists into html.
definitionLists(text, hashBlocks) ==
    LET Render(s, m) == <<"<", "d", "l", ">", "\n">> \o trim(processDefListItems(Group(s, m, 2)))
                        \o <<"\n", "<", "/", "d", "l", ">">>
        Around(s, m, placeholder) == Group(s, m, 1) \o placeholder \o <<NL, NL>>
        Unanchored(done) ==
            [hashBlocks |-> done.hashBlocks, text |-> removeAnchors(done.text)]
    IN Unanchored(ReplaceHashed(wholeList, addAnchors(text), hashBlocks, Render, Around))

(***************************************************************************)
(* The conversion hooks                                                    *)
(***************************************************************************)
\* The transformations init() collects for options.extensions.
transformationsOf(extensions) ==
    IF contains(extensions, "all") THEN << "all" >>
    ELSE (IF contains(extensions, "tables") THEN << "tables" >> ELSE << >>)
         \o (IF contains(extensions, "fenced_code_gfm") THEN << "fencedCodeBlocks" >>
             ELSE << >>)
         \o (IF contains(extensions, "def_list") THEN << "definitionLists" >> ELSE << >>)

\* for (i = 0; i < transformations.length; i++) text = this[transformations[i]](text)
RECURSIVE runTransformations(_, _, _, _)

\* Markdown.Extra.prototype.all: this.tables and then this.fencedCodeBlocks.
all(text, hashBlocks, opts) ==
    runTransformations(<< "tables", "fencedCodeBlocks" >>, text, hashBlocks, opts)

\* this[name](text)
transformation(name, text, hashBlocks, opts) ==
    CASE name = "all"    -> all(text, hashBlocks, opts)
      [] name = "tables" -> tables(text, hashBlocks, opts.tableClass)
      [] name = "fencedCodeBlocks" ->
           fencedCodeBlocks(text, hashBlocks, opts.googleCodePrettify, opts.highlightJs)
      [] name = "definitionLists" -> definitionLists(text, hashBlocks)

runTransformations(transformations, text, hashBlocks, opts) ==
    LET Rest(r) == runTransformations(Tail(transformations), r.text, r.hashBlocks, opts)
    IN IF transformations = << >> THEN [hashBlocks |-> hashBlocks, text |-> text]
       ELSE Rest(transformation(Head(transformations), text, hashBlocks, opts))

\* The store a call of doConversion starts from.
storeAtStart(hashBlocks) == << >>

\* Setup state vars, do conversion.
doConversion(transformations, text, hashBlocks, opts) ==
    LET Newline(r) == [hashBlocks |-> r.hashBlocks, text |-> r.text \o <<NL>>]
    IN Newline(runTransformations(transformations, processEscapes(text),
                                  storeAtStart(hashBlocks), opts))

\* Unhash the blocks stored, clear the store, return the converted text.
finishConversion(text, hashBlocks) ==
    [text |-> unHashExtraBlocks(hashBlocks, text), hashBlocks |-> << >>]


(***************************************************************************)
(* The program as a state machine.                                         *)
(*   transformations  the recognizers init() collected, in their order     *)
(*   hashBlocks       the store of the Extra object                        *)
(*   text             the text in conversion                               *)
(*   input            the text the operation last applied was given        *)
(*   given            what the text was made of (options, pieces, a table, *)
(*                    a definition list)                                   *)
(*   emitted          the placeholders hashExtraBlock has returned, each   *)
(*                    with the block stored for it                         *)
(*   calls            the calls of doConversion in this conversion         *)
(*   pc               where the conversion stands                          *)
(***************************************************************************)
VARIABLES transformations, hashBlocks, text, input, given, emitted, calls, pc

vars == << transformations, hashBlocks, text, input, given, emitted, calls, pc >>

\* The fields the constructor sets: no table class, no highlighter.
defaults == [tableClass |-> << >>, googleCodePrettify |-> FALSE, highlightJs |-> FALSE]

\* options.extensions || ["all"], and the transformations collected for them.
init(options) ==
    transformationsOf(IF "extensions" \in DOMAIN options THEN options.extensions
                      ELSE << "all" >>)

\* The host puts the rendering of a nested block into the text of the document.
spliceNested(whole, nested) == whole \o nested

\* The placeholders a call of doConversion emitted: its store starts empty, so
\* the k-th block pushed got the placeholder with key k - 1.
placeholdersOf(blocks) ==
    Tuple([k \in 1..Len(blocks) |-> [key |-> k - 1, block |-> blocks[k]]])

(***************************************************************************)
(* One conversion of the host: the pre-pass hook on the document, the      *)
(* pre-pass hook again on each nested block, the post-pass hook once.      *)
(***************************************************************************)
MaxCalls == 2

NoOptions == << >>

Options ==
    { NoOptions,
      [extensions |-> << "all" >>],
      [extensions |-> << "tables" >>],
      [extensions |-> << "fenced_code_gfm" >>],
      [extensions |-> << "def_list" >>],
      [extensions |-> << "tables", "fenced_code_gfm", "def_list" >>] }

Terms       == { <<"T">> }
ColonMarks  == { <<":", " ">>, <<":", " ", " ", " ">> }
Definitions == { <<"d">>, <<"d", " ", "e">> }

\* A term line and a definition that runs to the end of the text.
TermDefText(term, colon, def) == term \o <<NL>> \o colon \o def \o <<NL>>

TermDefTexts ==
    { TermDefText(term, colon, def) :
        term \in Terms, colon \in ColonMarks, def \in Definitions }

Inputs ==
    TermDefTexts
    \cup { <<"T", "\n", ":", " ", "d", "\n", "\n">>,
           <<"a", "|", "b", "\n", "-", "|", "-", "\n", "1", "|", "2", "\n">>,
           <<BT, BT, BT, "\n", "a", "|", "b", "\n", "-", "|", "-", "\n", "\n", "x", "\n", BT, BT, BT>>,
           <<"T", "\n", ":", " ", "d", "\n", BT, BT, BT, "\n", "c", "\n", BT, BT, BT, "\n",
               "\n", "\n">>,
           << STX >> \o <<"n", "o", " ", "l", "i", "s", "t">>,
           <<"a", "\\", "|", "b">> }

NestedInputs == { <<"x">>, <<"|", "c", "\n", "|", "-", "\n">> }

InitSession ==
    \E options \in Options :
        /\ transformations = init(options)
        /\ given = options
        /\ hashBlocks = << >>
        /\ text = << >>
        /\ input = << >>
        /\ emitted = << >>
        /\ calls = 0
        /\ pc = "ready"

\* The host calls the preBlockGamut hook: on the document first, and again on
\* each nested block it renders, whose rendering goes into the document.
PreBlockGamut(t) ==
    /\ pc \in {"ready", "rendering"}
    /\ calls < MaxCalls
    /\ t \in IF pc = "ready" THEN Inputs ELSE NestedInputs
    /\ LET Converted(r) ==
               /\ hashBlocks' = r.hashBlocks
               /\ text' = spliceNested(text, r.text)
               /\ emitted' = emitted \o placeholdersOf(r.hashBlocks)
       IN Converted(doConversion(transformations, t, hashBlocks, defaults))
    /\ input' = IF pc = "ready" THEN t ELSE input
    /\ calls' = calls + 1
    /\ pc' = "rendering"
    /\ UNCHANGED << transformations, given >>

\* The host calls the postConversion hook on the rendered document.
PostConversion ==
    /\ pc = "rendering"
    /\ LET Finished(r) == hashBlocks' = r.hashBlocks /\ text' = r.text
       IN Finished(finishConversion(text, hashBlocks))
    /\ pc' = "done"
    /\ UNCHANGED << transformations, input, given, emitted, calls >>

NextSession ==
    \/ \E t \in Inputs \cup NestedInputs : PreBlockGamut(t)
    \/ PostConversion

SpecSession == InitSession /\ [][NextSession]_vars


\* A text contains a literal.
Has(str, t) == Test(Lit(str), t)

\* C1. At the moment finishConversion runs, every placeholder emitted by a
\* call of doConversion of this conversion, nested calls included, refers to
\* one stored block, the fragment stored when the placeholder was emitted.
C1_PlaceholdersResolveAtFinish ==
    pc = "rendering" =>
        \A k \in 1..Len(emitted) :
            /\ emitted[k].key < Len(hashBlocks)
            /\ hashBlocks[emitted[k].key + 1] = emitted[k].block

\* ~X<digits>X, a placeholder with or without its <p> wrapper.
token == Cat(<< Lit(<<"~", "X">>), Plus(In(DIGITS)), Ch("X") >>)

tokenOf(key) == <<"~", "X">> \o NumberToString(key) \o <<"X">>

\* C4. Placeholders never nest: no fragment stored by one doConversion
\* contains, with or without the wrapper tag, a placeholder emitted earlier in
\* it, so that the text finishConversion returns holds no placeholder token and
\* restoring it once more changes nothing.
C4_PlaceholdersNeverNest ==
    calls = 1 =>
        /\ \A k \in 1..Len(emitted) : \A j \in 1..(k - 1) :
               ~Has(tokenOf(emitted[j].key), emitted[k].block)
        /\ pc = "done" =>
               /\ ~Test(token, text)
               /\ unHashExtraBlocks(Tuple([k \in 1..Len(emitted) |-> emitted[k].block]),
                                    text) = text

\* The fragments stored that are code blocks.
codeFragments(blocks) == SelectSeq(blocks, LAMBDA b : Sub(b, 1, 4) = <<"<", "p", "r", "e">>)

\* C5. With fenced code blocks enabled, alone or with other recognizers, the
\* code fragments stored are those of the fences of the input, each holding
\* the HTML-escaped lines that stood between its fences: no recognizer that
\* runs first rewrites the text inside a fence.
C5_FenceBodyKeptLiteral ==
    (/\ pc = "rendering"
     /\ calls = 1
     /\ (contains(transformations, "all") \/ contains(transformations, "fencedCodeBlocks")))
    => codeFragments(hashBlocks)
         = fencedCodeBlocks(input, << >>, defaults.googleCodePrettify,
                            defaults.highlightJs).hashBlocks

\* C7. With the extension set 'all', given or by default, doConversion gives
\* what it gives with tables, fenced code blocks and definition lists enabled
\* by name.
C7_AllAppliesEveryRecognizer ==
    (pc = "rendering" /\ calls = 1 /\ transformations = << "all" >>)
    => [hashBlocks |-> hashBlocks, text |-> text]
         = doConversion(<< "tables", "fencedCodeBlocks", "definitionLists" >>,
                        input, << >>, defaults)

\* C9. A recognizer whose grammar does not fire on a text stores no block and
\* returns the text as it was given: of one doConversion with that recognizer
\* alone there remain the escapes processed and the newline added.
C9_NoMatchLeavesTextUnchanged ==
    (/\ pc = "rendering"
     /\ calls = 1
     /\ transformations \in {<< "tables" >>, << "fencedCodeBlocks" >>,
                             << "definitionLists" >>}
     /\ hashBlocks = << >>)
    => text = processEscapes(input) \o <<NL>>

\* C10. A term line followed by a colon-marked definition that runs to the end
\* of the text is one definition list: one block is stored, a <dl> holding the
\* term and its tight definition.
C10_DefinitionToEndOfText ==
    (/\ pc = "rendering"
     /\ calls = 1
     /\ contains(transformations, "definitionLists")
     /\ input \in TermDefTexts)
    => \E term \in Terms, colon \in ColonMarks, def \in Definitions :
           /\ input = TermDefText(term, colon, def)
           /\ hashBlocks = << <<"<", "d", "l", ">", "\n", "<", "d", "t",
               ">">> \o term \o <<"<", "/", "d", "t", ">", "\n", "<", "d", "d", ">">> \o def
                              \o <<"<", "/", "d", "d", ">", "\n", "<", "/", "d", "l", ">">> >>

(***************************************************************************)
(* The store on its own: blocks are stored, the placeholders returned and  *)
(* other text are put one after the other into a text, the text is         *)
(* restored.                                                               *)
(***************************************************************************)
MaxBlocks == 2
MaxPieces == 3

Blocks == { <<"B">>, <<"<", "p", ">", "~", "X", "0", "X", "<", "/", "p", ">">> }

Surroundings == { <<"a", " ">>, <<"<", "p", ">", "~", "X", "1", "X", "<", "/", "p", ">">> }

InitStore ==
    /\ transformations = << >>
    /\ hashBlocks = << >>
    /\ text = << >>
    /\ input = << >>
    /\ given = << >>
    /\ emitted = << >>
    /\ calls = 0
    /\ pc = "storing"

\* hashExtraBlock(block); the placeholder returned is kept.
HashExtraBlock(block) ==
    /\ pc = "storing"
    /\ Len(hashBlocks) < MaxBlocks
    /\ LET Stored(h) ==
               /\ hashBlocks' = h.hashBlocks
               /\ emitted' = Append(emitted, [text |-> h.text, block |-> block])
       IN Stored(hashExtraBlock(hashBlocks, block))
    /\ UNCHANGED << transformations, text, input, given, calls, pc >>

\* The k-th placeholder returned goes into the text.
EmbedPlaceholder(k) ==
    /\ pc = "storing"
    /\ Len(given) < MaxPieces
    /\ k <= Len(emitted)
    /\ text' = text \o emitted[k].text
    /\ given' = Append(given, [stored |-> TRUE, text |-> emitted[k].text,
                               fragment |-> emitted[k].block])
    /\ UNCHANGED << transformations, hashBlocks, input, emitted, calls, pc >>

\* Other text goes into the text.
EmbedText(piece) ==
    /\ pc = "storing"
    /\ Len(given) < MaxPieces
    /\ text' = text \o piece
    /\ given' = Append(given, [stored |-> FALSE, text |-> piece, fragment |-> piece])
    /\ UNCHANGED << transformations, hashBlocks, input, emitted, calls, pc >>

\* unHashExtraBlocks(text)
UnHashExtraBlocks ==
    /\ pc = "storing"
    /\ text' = unHashExtraBlocks(hashBlocks, text)
    /\ input' = text
    /\ pc' = "restored"
    /\ UNCHANGED << transformations, hashBlocks, given, emitted, calls >>

NextStore ==
    \/ \E block \in Blocks : HashExtraBlock(block)
    \/ \E k \in 1..MaxBlocks : EmbedPlaceholder(k)
    \/ \E piece \in Surroundings : EmbedText(piece)
    \/ UnHashExtraBlocks

SpecStore == InitStore /\ [][NextStore]_vars

\* The text made of the fragments of the pieces, each in the place of its piece.
Fragments(pieces) == Concat([k \in 1..Len(pieces) |-> pieces[k].fragment])

\* The k-th placeholder returned carries the index k - 1.
IndexedInPushOrder ==
    \A k \in 1..Len(emitted) :
        emitted[k].text = <<"<", "p", ">", "~", "X">> \o NumberToString(k - 1) \o <<"X", "<",
            "/", "p", ">">>

\* No piece of the surrounding text holds a placeholder-shaped token.
NoTokenInSurroundings ==
    \A k \in 1..Len(given) : ~given[k].stored => ~Test(placeholderRe, given[k].text)

\* Every placeholder-shaped token of the text given to unHashExtraBlocks has a
\* block in the store.
EveryTokenStored ==
    LET InRange(ms) ==
            \A j \in 1..Len(ms) : parseInt(Group(input, ms[j], 1)) < Len(hashBlocks)
    IN InRange(Matches(placeholderRe, input))

\* C2, as stated. For every sequence of stores and every text in which the
\* placeholders returned stand in arbitrary surrounding text, restoring gives
\* the text with each placeholder replaced by its fragment and the surrounding
\* text unchanged; the k-th store returns the placeholder with index k - 1.
\* (Stated on the texts every token of which has a stored block: a token out
\* of range is the subject of C3.)
C2_RestoreReversesStore ==
    /\ IndexedInPushOrder
    /\ (pc = "restored" /\ EveryTokenStored) => text = Fragments(given)

\* C2, for surrounding text that holds no placeholder-shaped token
\* <p>~X<digits>X</p> of its own.
C2_RestoreReversesStoreInPlainText ==
    /\ IndexedInPushOrder
    /\ (pc = "restored" /\ NoTokenInSurroundings) => text = Fragments(given)

\* Two placeholders and other text have been restored.
C2_Restored ==
    /\ pc = "restored"
    /\ NoTokenInSurroundings
    /\ Cardinality({k \in 1..Len(given) : given[k].stored}) = 2
    /\ \E k \in 1..Len(given) : ~given[k].stored
    /\ text # input

\* C3. A placeholder whose index is out of range for the store is left in the
\* text as it stands; the placeholders in range are replaced and the rest of
\* the text is kept.
C3_OutOfRangeLeftLiteral ==
    pc = "restored" =>
        text = ReplaceAll(placeholderRe, input,
                          LAMBDA m, k :
                              IF parseInt(Group(input, m, 1)) < Len(hashBlocks)
                              THEN hashBlocks[parseInt(Group(input, m, 1)) + 1]
                              ELSE Sub(input, m.b, m.e - 1))

(***************************************************************************)
(* Tables: a table of header cells and rows of any number of cells is      *)
(* written as text and converted.                                          *)
(***************************************************************************)
MaxCols == 2
MaxRows == 2

\* The tables given: whether the lines have outer pipes, the number of header
\* cells, and for each row the number of its cells (0: a line with no cell).
TablesGiven ==
    { [outerPipes |-> p, cols |-> n, rows |-> rs] :
        p \in BOOLEAN, n \in 1..MaxCols,
        rs \in UNION { [1..len -> 0..(MaxCols + 1)] : len \in 0..MaxRows } }

headerCells(n) == Tuple([j \in 1..n |-> << LOWERS[j] >>])
rowCells(n)    == Tuple([j \in 1..n |-> << DigitOf[j + 1] >>])
separatorCells(n) == Tuple([j \in 1..n |-> << "-" >>])

\* A line of a table.
TableLine(cells, outerPipes) ==
    CASE cells = << >> -> << "|" >>
      [] outerPipes -> << "|" >> \o Join(cells, << "|" >>) \o << "|" >>
      [] Len(cells) = 1 -> cells[1] \o << "|" >>
      [] OTHER -> Join(cells, << "|" >>)

TableText(g) ==
    TableLine(headerCells(g.cols), g.outerPipes) \o <<NL>>
    \o TableLine(separatorCells(g.cols), g.outerPipes) \o <<NL>>
    \o Concat([i \in 1..Len(g.rows) |->
                 TableLine(rowCells(g.rows[i]), g.outerPipes) \o <<NL>>])

InitTables ==
    \E g \in TablesGiven :
        /\ given = g
        /\ text = TableText(g)
        /\ g.rows \in Seq(0..(g.cols + 1))
        /\ transformations = << "tables" >>
        /\ hashBlocks = << >>
        /\ input = << >>
        /\ emitted = << >>
        /\ calls = 0
        /\ pc = "table"

\* this.tables(text)
Tables ==
    /\ pc = "table"
    /\ LET Converted(r) == hashBlocks' = r.hashBlocks /\ text' = r.text
       IN Converted(tables(text, hashBlocks, defaults.tableClass))
    /\ input' = text
    /\ pc' = "converted"
    /\ UNCHANGED << transformations, given, emitted, calls >>

NextTables == Tables

SpecTables == InitTables /\ [][NextTables]_vars

\* <th ...>cell</th> or <td ...>cell</td>
renderedCell ==
    Cat(<< Lit(<<"<", "t">>), In({"h", "d"}), Star(NotIn({">"})), Ch(">"),
           Cap(1, Star(NotIn({"<"}))), Lit(<<"<", "/", "t">>) >>)

\* The cells of each row of a rendered table, the header row first.
renderedRows(html) ==
    LET rows == Tail(Split(Lit(<<"<", "t", "r", ">", "\n">>), html))
        cellsOf(row) ==
            LET ms == Matches(renderedCell, row)
            IN Tuple([j \in 1..Len(ms) |-> Group(row, ms[j], 1)])
    IN Tuple([i \in 1..Len(rows) |-> cellsOf(rows[i])])

\* cells made n: cut after the n-th, filled up with empty cells.
fitTo(cells, n) == Tuple([j \in 1..n |-> IF j <= Len(cells) THEN cells[j] ELSE << >>])

\* The rows expected of the table given: a row for each line that has a cell.
expectedRows(g) ==
    LET lines == SelectSeq(g.rows, LAMBDA count : count > 0)
    IN << headerCells(g.cols) >>
       \o Tuple([i \in 1..Len(lines) |-> fitTo(rowCells(lines[i]), g.cols)])

\* C6. A table with N header cells is rendered with N header cells and N cells
\* in every body row: a shorter row is filled up with empty cells, the cells
\* after the N-th of a longer row are dropped, a line without a cell gives no
\* row.
C6_RowsHaveHeaderWidth ==
    pc = "converted" =>
        /\ Len(hashBlocks) = 1
        /\ renderedRows(hashBlocks[1]) = expectedRows(given)

\* A table with a row shorter and a row longer than the header is converted.
C6_ShortAndLongRowConverted ==
    /\ pc = "converted"
    /\ Len(hashBlocks) = 1
    /\ \E i \in 1..Len(given.rows) : given.rows[i] > 0 /\ given.rows[i] < given.cols
    /\ \E i \in 1..Len(given.rows) : given.rows[i] > given.cols

(***************************************************************************)
(* Definition lists: the text of a list, as definitionLists extracts it, is *)
(* processed.                                                              *)
(***************************************************************************)
MaxDefs == 2

TermLines == { << <<"T">> >>, << <<"T">>, <<"U">> >> }

\* A definition of one line, of two lines, and of two paragraphs.
Bodies == { <<"d">>, <<"d", "\n", " ", " ", "e">>, <<"d", "\n", "\n", " ", " ", " ", " ", "e">> }

DefListsGiven ==
    { [terms |-> ts, defs |-> ds] :
        ts \in TermLines,
        ds \in UNION { [1..n -> [blankBefore : BOOLEAN, body : Bodies]] : n \in 1..MaxDefs } }

DefListText(g) ==
    Join(g.terms, <<NL>>)
    \o Concat([k \in 1..Len(g.defs) |->
                 (IF g.defs[k].blankBefore THEN <<NL, NL>> ELSE <<NL>>)
                 \o <<":", " ">> \o g.defs[k].body])

InitDefs ==
    \E g \in DefListsGiven :
        /\ given = g
        /\ text = DefListText(g)
        /\ transformations = << "definitionLists" >>
        /\ hashBlocks = << >>
        /\ input = << >>
        /\ emitted = << >>
        /\ calls = 0
        /\ pc = "list"

\* processDefListItems(list)
ProcessDefListItems ==
    /\ pc = "list"
    /\ text' = processDefListItems(text)
    /\ input' = text
    /\ pc' = "processed"
    /\ UNCHANGED << transformations, hashBlocks, given, emitted, calls >>

NextDefs == ProcessDefListItems

SpecDefs == InitDefs /\ [][NextDefs]_vars

\* <dd>...</dd>
renderedDefinition ==
    Cat(<< Lit(<<"<", "d", "d", ">">>), Cap(1, RepLazy(AnyCh, 0, -1)), Lit(<<"<", "/", "d",
        "d", ">">>) >>)

\* What each <dd> of a rendered list holds.
renderedDefinitions(html) ==
    LET ms == Matches(renderedDefinition, html)
    IN Tuple([k \in 1..Len(ms) |-> Group(html, ms[k], 1)])

\* C8. Every definition is rendered once, loose (through the full render, in
\* paragraphs) if and only if a blank line precedes it or its body has a
\* blank-line gap, and tight (no paragraph wrapper left) otherwise.
C8_LooseIffBlankLine ==
    pc = "processed" =>
        LET dds == renderedDefinitions(text)
        IN /\ Len(dds) = Len(given.defs)
           /\ \A k \in 1..Len(dds) :
                  Has(<<"<", "p", ">">>, dds[k])
                  <=> (given.defs[k].blankBefore \/ Test(BlankGap, given.defs[k].body))

\* A list with a definition loose by its gap alone and a tight one is processed.
C8_LooseAndTightProcessed ==
    /\ pc = "processed"
    /\ \E k \in 1..Len(given.defs) :
           ~given.defs[k].blankBefore /\ Test(BlankGap, given.defs[k].body)
    /\ \E k \in 1..Len(given.defs) :
           ~given.defs[k].blankBefore /\ ~Test(BlankGap, given.defs[k].body)


=============================================================================
